---- MODULE Spec2Model ----
(***************************************************************************)
(* Model of src/src/ai/genkit.ts: the weather cache (weatherCache,         *)
(* getCacheKey, getCachedWeather, setCachedWeather), the entry point       *)
(* getWeatherData and the fetch-and-normalise flow getWeatherDataFlow.     *)
(*                                                                         *)
(* Conventions.  Times are milliseconds (Date.now()); provider timestamps  *)
(* (dt) are seconds.  Latitudes and longitudes are integers counting       *)
(* thousandths of a degree, temperatures are tenths of a degree.  A        *)
(* JavaScript string is a sequence of one-character strings.  An optional  *)
(* value (undefined / null / absent) is a sequence of length 0 or 1.       *)
(* One request is one invocation of getWeatherData; its steps are the      *)
(* code between two awaits, so requests interleave as they do on the       *)
(* event loop.                                                             *)
(***************************************************************************)
EXTENDS Integers, Sequences, FiniteSets, TLC

\* ---------------------------------------------------------------- bounds
\* the clock advances at most MaxTicks times
MaxTicks == 3
\* number of samples in a provider forecast list
MaxSamples == 10
\* longest forecast list of the aggregation specification
MaxList == 3

\* ------------------------------------------------------ program constants
CACHE_TTL_MS == 5 * 60 * 1000
TWENTY_FOUR_HOURS_MS == 24 * 60 * 60 * 1000
HOURLY_LIMIT == 8
DAILY_LIMIT == 7

\* one clock step: half a TTL, so that now = expiry is reached exactly
TickMs == CACHE_TTL_MS \div 2

\* invocations of getWeatherData, numbered in the order they are made
Requests == {1, 2}

\* ------------------------------------------------------------- strings
WhiteSpace == {" "}
UpperToLower == ("L" :> "l") @@ ("O" :> "o")

RECURSIVE trimStart(_)
trimStart(s) ==
    IF s # <<>> /\ Head(s) \in WhiteSpace THEN trimStart(Tail(s)) ELSE s

RECURSIVE trimEnd(_)
trimEnd(s) ==
    IF s # <<>> /\ s[Len(s)] \in WhiteSpace
    THEN trimEnd(SubSeq(s, 1, Len(s) - 1)) ELSE s

\* String.prototype.trim
trim(s) == trimEnd(trimStart(s))

\* String.prototype.toLowerCase
toLowerCase(s) ==
    [i \in 1..Len(s) |->
        IF s[i] \in DOMAIN UpperToLower THEN UpperToLower[s[i]] ELSE s[i]]

\* decimal digits of a natural number
DigitChar == <<"0", "1", "2", "3", "4", "5", "6", "7", "8", "9">>

RECURSIVE Digits(_)
Digits(n) ==
    IF n < 10 THEN <<DigitChar[n + 1]>>
    ELSE Digits(n \div 10) \o <<DigitChar[(n % 10) + 1]>>

Abs(x) == IF x < 0 THEN -x ELSE x

\* Number.prototype.toFixed(2) of x thousandths: the sign is taken from x
\* before rounding, the magnitude is rounded to hundredths (ties upwards)
toFixed2(x) ==
    LET n == (Abs(x) + 5) \div 10
    IN  (IF x < 0 THEN <<"-">> ELSE <<>>)
        \o Digits(n \div 100) \o <<".">>
        \o <<DigitChar[((n % 100) \div 10) + 1], DigitChar[(n % 10) + 1]>>

\* Math.round of x tenths: floor(x + 0.5)
MathRound(x) == (x + 5) \div 10

\* a number the provider left out (undefined in the JSON, NaN in every
\* computation); all other timestamps of the model are >= 0
NaN == 0 - 1

\* Math.round(speed * 3.6) of a speed in tenths of m/s
KmhRound(speed) == (speed * 36 + 50) \div 100

\* numbers with -Infinity and Infinity
NegInfinity == [inf |-> 0 - 1, v |-> 0]
PosInfinity == [inf |-> 1, v |-> 0]
Finite(x) == [inf |-> 0, v |-> x]

\* Math.max(a, x) and Math.min(a, x) for a running value a and a number x
MathMax(a, x) ==
    IF a.inf < 0 THEN Finite(x)
    ELSE IF a.inf > 0 THEN a
    ELSE Finite(IF a.v >= x THEN a.v ELSE x)

MathMin(a, x) ==
    IF a.inf > 0 THEN Finite(x)
    ELSE IF a.inf < 0 THEN a
    ELSE Finite(IF a.v <= x THEN a.v ELSE x)

\* Math.round of a running high or low (tenths)
MathRoundExt(a) == IF a.inf = 0 THEN Finite(MathRound(a.v)) ELSE a

\* the running humidity is the exact fraction num / den
Zero == [num |-> 0, den |-> 1]

\* (running + humidity) / 2
HalfSum(running, humidity) ==
    [num |-> running.num + humidity * running.den, den |-> 2 * running.den]

\* Math.round of a fraction: floor(x + 1/2)
MathRoundFrac(f) == (2 * f.num + f.den) \div (2 * f.den)

\* ------------------------------------------------------------- queries
Opt(S) == {<<>>} \cup {<<x>> : x \in S}

Query(location, lat, lon) == [location |-> location, lat |-> lat, lon |-> lon]

\* {} , a lone coordinate, and the empty location
MalformedQueries ==
    { Query(<<>>, <<>>, <<>>), Query(<<>>, <<1>>, <<>>),
      Query(<< <<>> >>, <<>>, <<>>) }

\* a whitespace-only location, "Lo" and " lo "
LocationQueries ==
    { Query(<<loc>>, <<>>, <<>>) :
        loc \in { <<" ">>, <<"L", "o">>, <<" ", "l", "o", " ">> } }

\* -0.001, 0.001 and 0.004 degrees of latitude at 0.002 of longitude
CoordQueries == { Query(<<>>, <<lat>>, <<2>>) : lat \in {-1, 1, 4} }

\* a location together with one or both coordinates
MixedQueries ==
    { Query(<< <<"L", "o">> >>, <<4>>, <<>>),
      Query(<< <<"L", "o">> >>, <<4>>, <<2>>) }

Queries == MalformedQueries \cup LocationQueries \cup CoordQueries
           \cup MixedQueries

\* variant: exactly one of the two forms
GetWeatherDataInputSchema_exactlyOne(data) ==
    (data.location # <<>> /\ Len(data.location[1]) > 0)
        # (data.lat # <<>> /\ data.lon # <<>>)

\* refine() of GetWeatherDataInputSchema: location is truthy, or lat and
\* lon are both numbers
GetWeatherDataInputSchema(data) ==
    \/ (data.location # <<>> /\ Len(data.location[1]) > 0)
    \/ (data.lat # <<>> /\ data.lon # <<>>)

\* ----------------------------------------------------------------- cache
\* variant: the location is trimmed but its case is kept
getCacheKey_noLowerCase(input) ==
    IF input.location # <<>> /\ Len(input.location[1]) > 0
    THEN <<trim(input.location[1])>>
    ELSE IF input.lat # <<>> /\ input.lon # <<>>
         THEN <<toFixed2(input.lat[1]) \o <<":">> \o toFixed2(input.lon[1])>>
         ELSE <<>>

getCacheKey(input) ==
    IF input.location # <<>> /\ Len(input.location[1]) > 0
    THEN <<toLowerCase(trim(input.location[1]))>>
    ELSE IF input.lat # <<>> /\ input.lon # <<>>
         THEN <<toFixed2(input.lat[1]) \o <<":">> \o toFixed2(input.lon[1])>>
         ELSE <<>>

\* if (cacheKey): null and the empty string are both falsy
Truthy(cacheKey) == cacheKey # <<>> /\ Len(cacheKey[1]) > 0

MapDelete(cache, key) == [k \in DOMAIN cache \ {key} |-> cache[k]]
MapSet(cache, key, entry) ==
    [k \in DOMAIN cache \cup {key} |-> IF k = key THEN entry ELSE cache[k]]

\* variant: the comparison is turned around
Expired_reversed(cached, t) == cached.expiry >= t

\* variant: an entry is still served at the instant of its expiry
Expired_strict(cached, t) == cached.expiry < t

\* the entry is expired when expiry <= Date.now()
Expired(cached, t) == cached.expiry <= t

\* variant: a lookup also removes the expired entries of the other keys
getCachedWeather_sweep(cache, key, t) ==
    LET live == [k \in {x \in DOMAIN cache : cache[x].expiry > t} |-> cache[k]]
    IN  IF key \in DOMAIN live
        THEN [value |-> <<live[key].data>>, cache |-> live]
        ELSE [value |-> <<>>, cache |-> live]

\* getCachedWeather: the value returned and the cache it leaves
getCachedWeather(cache, key, t) ==
    IF key \notin DOMAIN cache
    THEN [value |-> <<>>, cache |-> cache]
    ELSE IF Expired(cache[key], t)
         THEN [value |-> <<>>, cache |-> MapDelete(cache, key)]
         ELSE [value |-> <<cache[key].data>>, cache |-> cache]

\* variant: an entry that is already present is kept
setCachedWeather_keepExisting(cache, key, data, t) ==
    IF key \in DOMAIN cache THEN cache
    ELSE MapSet(cache, key, [data |-> data, expiry |-> t + CACHE_TTL_MS])

\* variant: the TTL is added twice
setCachedWeather_doubleTtl(cache, key, data, t) ==
    MapSet(cache, key, [data |-> data, expiry |-> t + 2 * CACHE_TTL_MS])

\* variant: an entry that expires no earlier than the new one is kept
setCachedWeather_olderWins(cache, key, data, t) ==
    IF key \in DOMAIN cache /\ cache[key].expiry >= t + CACHE_TTL_MS
    THEN cache
    ELSE MapSet(cache, key, [data |-> data, expiry |-> t + CACHE_TTL_MS])

setCachedWeather(cache, key, data, t) ==
    MapSet(cache, key, [data |-> data, expiry |-> t + CACHE_TTL_MS])

\* ---------------------------------------------------------- the provider
\* Response.ok: the status is in the range 200-299
ResponseOk(status) == status >= 200 /\ status <= 299

\* current-weather JSON bodies (coord in thousandths, temp in tenths)
WeatherBodies ==
    { [name |-> "London", coord |-> [lat |-> 51507, lon |-> -128],
       main |-> "Rain", temp |-> 184, feels_like |-> 179, humidity |-> 72,
       speed |-> 41, sunrise |-> 23400, sunset |-> 67500, dt |-> 52200] }

ErrorResponses ==
    { [status |-> 404, text |-> "not found", json |-> <<>>],
      [status |-> 500, text |-> "server error", json |-> <<>>] }

WeatherResponses ==
    { [status |-> 200, text |-> "", json |-> <<b>>] : b \in WeatherBodies }
    \cup ErrorResponses

\* shapes of the forecast list: offset of the first sample from the time of
\* the response, distance between samples (seconds), condition and
\* temperature (tenths) of the samples
ForecastShapes ==
    { [first |-> 0, step |-> 3600, main |-> "Clouds", temp |-> 96,
       temp_max |-> 104, temp_min |-> 81, humidity |-> 80, speed |-> 25],
      [first |-> 21600, step |-> 21600, main |-> "Snow", temp |-> -14,
       temp_max |-> -6, temp_min |-> -25, humidity |-> 90, speed |-> 60] }

ForecastJson(shape, t) ==
    [city |-> [timezone |-> 3600],
     list |-> [i \in 1..MaxSamples |->
                 [dt |-> (t \div 1000) + shape.first + (i - 1) * shape.step,
                  main |-> shape.main,
                  temp |-> shape.temp,
                  temp_max |-> shape.temp_max,
                  temp_min |-> shape.temp_min,
                  humidity |-> shape.humidity,
                  speed |-> shape.speed]]]

ForecastResponses(t) ==
    { [status |-> 200, text |-> "", json |-> <<ForecastJson(sh, t)>>] :
        sh \in ForecastShapes }
    \cup ErrorResponses

\* ------------------------------------------------------------- the flow
mapWeatherCondition(main) ==
    CASE main = "Clear" -> "Sunny"
      [] main = "Clouds" -> "Cloudy"
      [] main = "Rain" -> "Rainy"
      [] main = "Drizzle" -> "Rainy"
      [] main = "Snow" -> "Snowy"
      [] main = "Thunderstorm" -> "Thunderstorm"
      [] main = "Mist" -> "Fog"
      [] main = "Fog" -> "Fog"
      [] main = "Haze" -> "Haze"
      [] OTHER -> "Sunny"

\* the current-weather request built from the query; <<>> when the handler
\* throws instead
WeatherUrl(input) ==
    IF input.location # <<>> /\ Len(input.location[1]) > 0
    THEN <<[endpoint |-> "weather", q |-> input.location,
            lat |-> <<>>, lon |-> <<>>]>>
    ELSE IF input.lat # <<>> /\ input.lon # <<>>
         THEN <<[endpoint |-> "weather", q |-> <<>>,
                 lat |-> input.lat, lon |-> input.lon]>>
         ELSE <<>>

\* variant: nothing is checked before the request is built
FlowStart_noValidation(input) ==
    IF input.location # <<>> /\ Len(input.location[1]) > 0
    THEN <<[endpoint |-> "weather", q |-> input.location,
            lat |-> <<>>, lon |-> <<>>]>>
    ELSE <<[endpoint |-> "weather", q |-> <<>>,
            lat |-> input.lat, lon |-> input.lon]>>

\* start of getWeatherDataFlow: the input schema is checked by the flow,
\* then the handler builds the URL or throws; the request to issue, or <<>>
\* when the query is rejected
FlowStart(input) ==
    IF GetWeatherDataInputSchema(input) THEN WeatherUrl(input) ELSE <<>>

ValidationError ==
    [message |-> "Either location or both lat and lon must be provided.",
     status |-> 0, body |-> ""]

UpstreamError(msg, resp) ==
    [message |-> msg, status |-> resp.status, body |-> resp.text]

\* lat ?? coord.lat, lon ?? coord.lon
ForecastUrl(input, weatherData) ==
    [endpoint |-> "forecast", q |-> <<>>,
     lat |-> IF input.lat # <<>> THEN input.lat ELSE <<weatherData.coord.lat>>,
     lon |-> IF input.lon # <<>> THEN input.lon ELSE <<weatherData.coord.lon>>]

Slice(s, n) == SubSeq(s, 1, IF Len(s) < n THEN Len(s) ELSE n)

\* variant: every sample is kept
WithinDay_noFilter(h, t) == TRUE

\* the filter of the hourly list: forecastDate <= twentyFourHoursFromNow
\* (a comparison with an invalid date is false)
WithinDay(h, t) == h.dt # NaN /\ h.dt * 1000 <= t + TWENTY_FOUR_HOURS_MS

NotAvailable == <<"N", "/", "A">>

\* formatTimeFromTimestamp: the en-US rendering "h:mm AM" of the UTC time of
\* timestamp + timezoneOffset; the hourly labels pass {hour, hour12}, which
\* the spread merges with the defaults into the same set of fields.
\* Formatting an invalid date throws and the catch returns "N/A"
formatTimeFromTimestamp(timestamp, timezoneOffset) ==
    IF timestamp = NaN \/ timezoneOffset = NaN
    THEN NotAvailable
    ELSE LET secondOfDay == (timestamp + timezoneOffset) % 86400
             hour == secondOfDay \div 3600
             minute == (secondOfDay % 3600) \div 60
         IN  Digits(IF hour % 12 = 0 THEN 12 ELSE hour % 12)
             \o <<":", DigitChar[(minute \div 10) + 1],
                  DigitChar[(minute % 10) + 1], " ">>
             \o (IF hour < 12 THEN <<"A", "M">> ELSE <<"P", "M">>)

\* forecastData.list.filter(...).slice(0, 8).map(...); dt is kept next to
\* the rendered fields to identify the sample
Hourly(list, timezoneOffset, t) ==
    LET kept == Slice(SelectSeq(list, LAMBDA h : WithinDay(h, t)), HOURLY_LIMIT)
    IN  [i \in 1..Len(kept) |->
            [dt |-> kept[i].dt,
             time |-> formatTimeFromTimestamp(kept[i].dt, timezoneOffset),
             condition |-> mapWeatherCondition(kept[i].main),
             temperature |-> MathRound(kept[i].temp),
             windSpeed |-> KmhRound(kept[i].speed),
             humidity |-> kept[i].humidity]]

\* 1 January 1970 was a Thursday
WeekDays == <<"Thu", "Fri", "Sat", "Sun", "Mon", "Tue", "Wed">>

\* format(new Date(dt * 1000), 'EEE') of date-fns: the weekday in the time
\* zone of the server, tz seconds east of UTC; <<>> when it throws
\* RangeError because the date is invalid
formatEEE(dt, tz) ==
    IF dt = NaN THEN <<>>
    ELSE <<WeekDays[(((dt + tz) \div 86400) % 7) + 1]>>

\* the entry created for a day that has none yet
NewDay(day, item) ==
    [day |-> day,
     condition |-> mapWeatherCondition(item.main),
     tempHigh |-> NegInfinity,
     tempLow |-> PosInfinity,
     humidity |-> Zero]

\* variant: the condition follows the latest sample of the day
DayUpdate_lastCondition(d, item) ==
    [d EXCEPT !.condition = mapWeatherCondition(item.main),
              !.tempHigh = MathMax(d.tempHigh, item.temp_max),
              !.tempLow = MathMin(d.tempLow, item.temp_min),
              !.humidity = HalfSum(d.humidity, item.humidity)]

\* variant: the high is taken from temp instead of temp_max
DayUpdate_tempForHigh(d, item) ==
    [d EXCEPT !.tempHigh = MathMax(d.tempHigh, item.temp),
              !.tempLow = MathMin(d.tempLow, item.temp_min),
              !.humidity = HalfSum(d.humidity, item.humidity)]

\* the three assignments made for every sample
DayUpdate(d, item) ==
    [d EXCEPT !.tempHigh = MathMax(d.tempHigh, item.temp_max),
              !.tempLow = MathMin(d.tempLow, item.temp_min),
              !.humidity = HalfSum(d.humidity, item.humidity)]

\* forecastData.list.forEach(...): dailyForecasts as the sequence of its
\* values in insertion order, wrapped in <<_>>; <<>> when format throws
RECURSIVE DailyForecasts(_, _, _)
DailyForecasts(list, tz, acc) ==
    IF list = <<>> THEN <<acc>>
    ELSE LET item == Head(list)
             day == formatEEE(item.dt, tz)
         IN  IF day = <<>> THEN <<>>
             ELSE LET known == \E i \in 1..Len(acc) : acc[i].day = day[1]
                      withDay == IF known THEN acc
                                 ELSE Append(acc, NewDay(day[1], item))
                      at == CHOOSE i \in 1..Len(withDay) :
                                withDay[i].day = day[1]
                  IN  DailyForecasts(Tail(list), tz,
                          [withDay EXCEPT ![at] = DayUpdate(withDay[at], item)])

\* Object.values(dailyForecasts).slice(0, 7).map(...)
Forecast(dailyForecasts) ==
    LET days == Slice(dailyForecasts, DAILY_LIMIT)
    IN  [i \in 1..Len(days) |->
            [days[i] EXCEPT !.tempHigh = MathRoundExt(days[i].tempHigh),
                            !.tempLow = MathRoundExt(days[i].tempLow),
                            !.humidity = MathRoundFrac(days[i].humidity)]]

\* transformedData
Transform(weatherData, forecastData, dailyForecasts, t) ==
    LET timezoneOffset == forecastData.city.timezone IN
    [location |-> IF weatherData.name # "" THEN weatherData.name
                  ELSE "Current Location",
     condition |-> mapWeatherCondition(weatherData.main),
     temperature |-> MathRound(weatherData.temp),
     feelsLike |-> MathRound(weatherData.feels_like),
     humidity |-> weatherData.humidity,
     windSpeed |-> KmhRound(weatherData.speed),
     sunrise |-> formatTimeFromTimestamp(weatherData.sunrise, timezoneOffset),
     sunset |-> formatTimeFromTimestamp(weatherData.sunset, timezoneOffset),
     currentTime |-> formatTimeFromTimestamp(weatherData.dt, timezoneOffset),
     forecast |-> Forecast(dailyForecasts),
     hourly |-> Hourly(forecastData.list, timezoneOffset, t)]

\* the RangeError thrown by format for an invalid date
InvalidTimeError == [message |-> "Invalid time value", status |-> 0, body |-> ""]

\* ------------------------------------------------------------- the state
VARIABLES
    now,            \* Date.now()
    weatherCache,   \* Map<string, CacheEntry>
    req,            \* the invocations of getWeatherData
    serverTz        \* time zone of the server process, seconds east of UTC

vars == <<now, weatherCache, req, serverTz>>

IdleRequest ==
    [pc |-> "idle", input |-> <<>>, cacheKey |-> <<>>, calls |-> <<>>,
     weatherData |-> <<>>, result |-> <<>>, error |-> <<>>,
     \* history, not read by the program
     callTime |-> <<>>, seen |-> <<>>, priorStores |-> {},
     weatherResp |-> <<>>, forecastResp |-> <<>>,
     filterTime |-> <<>>, stored |-> <<>>]

Init ==
    /\ now = 0
    /\ weatherCache = <<>>
    /\ req = [r \in Requests |-> IdleRequest]
    /\ serverTz = 0

\* getWeatherData up to its first await: key, lookup, hit or start of flow
Call(r, input) ==
    /\ req[r].pc = "idle"
    /\ \A o \in Requests : o < r => req[o].pc # "idle"
    /\ LET cacheKey == getCacheKey(input)
           look == IF Truthy(cacheKey)
                   THEN getCachedWeather(weatherCache, cacheKey[1], now)
                   ELSE [value |-> <<>>, cache |-> weatherCache]
           url == FlowStart(input)
           base == [req[r] EXCEPT
                      !.input = <<input>>, !.cacheKey = cacheKey,
                      !.callTime = <<now>>,
                      !.seen = IF Truthy(cacheKey)
                                  /\ cacheKey[1] \in DOMAIN weatherCache
                               THEN <<weatherCache[cacheKey[1]]>> ELSE <<>>,
                      !.priorStores =
                          {o \in Requests : req[o].stored # <<>>}]
       IN  /\ weatherCache' = look.cache
           /\ req' = [req EXCEPT ![r] =
                IF look.value # <<>>
                THEN [base EXCEPT !.pc = "done", !.result = look.value]
                ELSE IF url = <<>>
                     THEN [base EXCEPT !.pc = "failed",
                                       !.error = <<ValidationError>>]
                     ELSE [base EXCEPT !.pc = "awaitWeather",
                                       !.calls = url]]
    /\ UNCHANGED <<now, serverTz>>

\* variant: the error is swallowed and a placeholder snapshot is returned
FlowFail_fallback(rq, err) ==
    [rq EXCEPT !.pc = "flowDone",
               !.result = <<[location |-> "Current Location",
                             condition |-> "Sunny", temperature |-> 0,
                             feelsLike |-> 0, humidity |-> 0,
                             windSpeed |-> 0, sunrise |-> NotAvailable,
                             sunset |-> NotAvailable,
                             currentTime |-> NotAvailable,
                             forecast |-> <<>>, hourly |-> <<>>]>>]

\* variant: a failed current-weather call is issued once more
FlowFail_retryOnce(rq, err) ==
    IF rq.pc = "awaitWeather" /\ Len(rq.calls) = 1
    THEN [rq EXCEPT !.calls = Append(rq.calls, rq.calls[1])]
    ELSE [rq EXCEPT !.pc = "failed", !.error = <<err>>]

\* the flow fails: the error is thrown through getWeatherData
FlowFail(rq, err) == [rq EXCEPT !.pc = "failed", !.error = <<err>>]

\* the current-weather response arrives
WeatherResponse(r, resp) ==
    /\ req[r].pc = "awaitWeather"
    /\ LET rq == [req[r] EXCEPT !.weatherResp = <<resp>>]
       IN  req' = [req EXCEPT ![r] =
             IF ~ResponseOk(resp.status)
             THEN FlowFail(rq, UpstreamError(
                      "OpenWeather API request failed", resp))
             ELSE [rq EXCEPT
                      !.pc = "awaitForecast",
                      !.weatherData = resp.json,
                      !.calls = Append(rq.calls,
                                  ForecastUrl(rq.input[1], resp.json[1]))]]
    /\ UNCHANGED <<now, weatherCache, serverTz>>

\* the forecast response arrives; the flow computes transformedData
ForecastResponse(r, resp) ==
    /\ req[r].pc = "awaitForecast"
    /\ LET rq == [req[r] EXCEPT !.forecastResp = <<resp>>]
           daily == DailyForecasts(resp.json[1].list, serverTz, <<>>)
       IN  req' = [req EXCEPT ![r] =
             IF ~ResponseOk(resp.status)
             THEN FlowFail(rq, UpstreamError(
                      "OpenWeather Forecast API request failed", resp))
             ELSE IF daily = <<>>
             THEN FlowFail(rq, InvalidTimeError)
             ELSE [rq EXCEPT
                      !.pc = "flowDone",
                      !.filterTime = <<now>>,
                      !.result = <<Transform(rq.weatherData[1],
                                             resp.json[1], daily[1], now)>>]]
    /\ UNCHANGED <<now, weatherCache, serverTz>>

\* getWeatherData after the flow returned: store and return
Store(r) ==
    /\ req[r].pc = "flowDone"
    /\ IF Truthy(req[r].cacheKey)
       THEN LET cache == setCachedWeather(weatherCache, req[r].cacheKey[1],
                                          req[r].result[1], now)
            IN  /\ weatherCache' = cache
                /\ req' = [req EXCEPT ![r].pc = "done",
                             ![r].stored =
                                 <<[key |-> req[r].cacheKey[1],
                                    entry |-> cache[req[r].cacheKey[1]],
                                    time |-> now,
                                    order |-> 1 + Cardinality(
                                        {o \in Requests :
                                            req[o].stored # <<>>}),
                                    replaced |-> req[r].cacheKey[1]
                                                 \in DOMAIN weatherCache]>>]
       ELSE /\ weatherCache' = weatherCache
            /\ req' = [req EXCEPT ![r].pc = "done"]
    /\ UNCHANGED <<now, serverTz>>

\* time passes
Tick ==
    /\ now + TickMs <= MaxTicks * TickMs
    /\ now' = now + TickMs
    /\ UNCHANGED <<weatherCache, req, serverTz>>

Next ==
    \/ \E r \in Requests, input \in Queries : Call(r, input)
    \/ \E r \in Requests, resp \in WeatherResponses : WeatherResponse(r, resp)
    \/ \E r \in Requests, resp \in ForecastResponses(now) :
           ForecastResponse(r, resp)
    \/ \E r \in Requests : Store(r)
    \/ Tick

Spec == Init /\ [][Next]_vars

\* ------------------------------------------- the aggregation specification
\* One request whose provider data is drawn from every forecast list of up
\* to MaxList samples, on servers and in cities of different time zones.

\* Thursday 14:00 and 16:00 UTC: one day on a server in UTC, Thursday 23:00
\* and Friday 01:00 on a server in UTC+9
FlowDts == {50400, 57600}

FlowProfiles ==
    { [main |-> "Clear", temp |-> 62, temp_max |-> 104, temp_min |-> 21,
       humidity |-> 80, speed |-> 25],
      [main |-> "Rain", temp |-> 71, temp_max |-> 146, temp_min |-> 0 - 12,
       humidity |-> 60, speed |-> 41],
      [main |-> "Snow", temp |-> 45, temp_max |-> 52, temp_min |-> 38,
       humidity |-> 50, speed |-> 60] }

Sample(dt, p) ==
    [dt |-> dt, main |-> p.main, temp |-> p.temp, temp_max |-> p.temp_max,
     temp_min |-> p.temp_min, humidity |-> p.humidity, speed |-> p.speed]

\* the last sample has no dt
FlowSamples ==
    { Sample(dt, p) : dt \in FlowDts, p \in FlowProfiles }
    \cup { Sample(NaN, CHOOSE p \in FlowProfiles : p.main = "Clear") }

FlowLists == UNION { [1..n -> FlowSamples] : n \in 1..MaxList }

\* city.timezone: UTC+1 and UTC+9
FlowTimezones == {3600, 32400}

\* the server runs in UTC or in UTC+9
ServerTimezones == {0, 32400}

FlowForecastResponses ==
    { [status |-> 200, text |-> "",
       json |-> <<[city |-> [timezone |-> tz], list |-> list]>>] :
        tz \in FlowTimezones, list \in FlowLists }

\* the second body has no sys.sunrise
FlowWeatherResponses ==
    { [status |-> 200, text |-> "", json |-> <<b>>] :
        b \in WeatherBodies
               \cup {[w EXCEPT !.sunrise = NaN] : w \in WeatherBodies} }

FlowQueries == { Query(<< <<"L", "o">> >>, <<>>, <<>>) }

InitFlow ==
    /\ now = 0
    /\ weatherCache = <<>>
    /\ req = [r \in Requests |-> IdleRequest]
    /\ serverTz \in ServerTimezones

NextFlow ==
    \/ \E input \in FlowQueries : Call(1, input)
    \/ \E resp \in FlowWeatherResponses : WeatherResponse(1, resp)
    \/ \E resp \in FlowForecastResponses : ForecastResponse(1, resp)
    \/ Store(1)

SpecFlow == InitFlow /\ [][NextFlow]_vars

\* ------------------------------------------------------------ properties
Called(r) == req[r].pc # "idle"

Is2xx(status) == status \in 200..299

\* the entry the lookup of request r found and its expiry was still ahead
FoundFresh(r) ==
    /\ req[r].seen # <<>>
    /\ req[r].callTime[1] < req[r].seen[1].expiry

\* the entry the lookup of request r found had expired
FoundExpired(r) ==
    /\ req[r].seen # <<>>
    /\ req[r].callTime[1] >= req[r].seen[1].expiry

\* C1: a call whose key has an entry with now < expiry returns the
\* snapshot of that entry, which is the one an earlier request stored, and
\* issues no provider call
C1_FreshEntryIsReturned ==
    \A r \in Requests :
        FoundFresh(r) =>
            /\ req[r].pc = "done"
            /\ req[r].result = <<req[r].seen[1].data>>
            /\ req[r].calls = <<>>
            /\ \E o \in req[r].priorStores :
                   /\ req[o].stored[1].key = req[r].cacheKey[1]
                   /\ req[o].stored[1].entry = req[r].seen[1]
                   /\ req[o].result = req[r].result

C1_Witness ==
    \E r \in Requests :
        /\ FoundFresh(r)
        /\ req[r].pc = "done"
        /\ req[r].callTime[1] > 0

\* C2: a lookup at now >= expiry removes the entry and the request issues
\* the current-weather call instead of returning the entry; when it has
\* completed it has run the whole pipeline of its own
C2_LookupStep ==
    \A r \in Requests :
        LET key == req'[r].cacheKey IN
        (/\ req[r].pc = "idle"
         /\ req'[r].pc # "idle"
         /\ key # <<>>
         /\ key[1] \in DOMAIN weatherCache
         /\ weatherCache[key[1]].expiry <= now)
        => /\ key[1] \notin DOMAIN weatherCache'
           /\ req'[r].pc = "awaitWeather"
           /\ req'[r].result = <<>>
           /\ Len(req'[r].calls) = 1
           /\ req'[r].calls[1].endpoint = "weather"

C2_FreshRun ==
    \A r \in Requests :
        (FoundExpired(r) /\ req[r].pc = "done") =>
            /\ Len(req[r].calls) = 2
            /\ req[r].calls[1].endpoint = "weather"
            /\ req[r].calls[2].endpoint = "forecast"
            /\ req[r].filterTime # <<>>
            /\ req[r].filterTime[1] >= req[r].callTime[1]

C2_ExpiredEntryIsRefetched == [][C2_LookupStep]_vars /\ []C2_FreshRun

\* the lookup happened exactly at the expiry of the entry
C2_Witness ==
    \E r \in Requests :
        /\ req[r].seen # <<>>
        /\ req[r].callTime[1] = req[r].seen[1].expiry
        /\ req[r].pc = "done"
        /\ Len(req[r].calls) = 2

\* C3: the store of a successful request with a usable key leaves, for that
\* key, the request's snapshot with expiry = time of the store + 5 minutes,
\* whatever was there before; the store is not earlier than the end of the
\* fetch
C3_StoreStep ==
    \A r \in Requests :
        LET key == req[r].cacheKey IN
        (/\ req[r].pc = "flowDone"
         /\ req'[r].pc = "done"
         /\ key # <<>> /\ Len(key[1]) > 0)
        => /\ key[1] \in DOMAIN weatherCache'
           /\ weatherCache'[key[1]] =
                  [data |-> req[r].result[1],
                   expiry |-> now + 5 * 60 * 1000]
           /\ req[r].filterTime[1] <= now
           /\ req'[r].result = req[r].result

C3_StoreSetsEntry == [][C3_StoreStep]_vars

\* a store that replaced an entry, some time after the call
C3_Witness ==
    \E r \in Requests :
        /\ req[r].stored # <<>>
        /\ req[r].stored[1].replaced
        /\ req[r].stored[1].time > req[r].callTime[1]
        /\ weatherCache[req[r].stored[1].key].data = req[r].result[1]

\* the request was rejected or got a non-2xx response
Failed(r) ==
    \/ req[r].error # <<>>
    \/ (req[r].weatherResp # <<>> /\ ~Is2xx(req[r].weatherResp[1].status))
    \/ (req[r].forecastResp # <<>> /\ ~Is2xx(req[r].forecastResp[1].status))

\* C4: a request that failed has stored nothing
C4_FailedRequestStoresNothing ==
    \A r \in Requests :
        Failed(r) =>
            /\ req[r].stored = <<>>
            /\ req[r].pc = "failed"
            /\ req[r].result = <<>>

C4_Witness ==
    \E r \in Requests :
        /\ req[r].forecastResp # <<>>
        /\ ~Is2xx(req[r].forecastResp[1].status)
        /\ req[r].cacheKey # <<>>
        /\ req[r].pc = "failed"

\* the query has no (non-empty) location and not both coordinates
Incomplete(q) ==
    /\ q.location \in {<<>>, << <<>> >>}
    /\ (q.lat = <<>> \/ q.lon = <<>>)

\* C5: a query with neither a location nor both coordinates fails with the
\* validation error, without any provider call, cache hit or store
C5_IncompleteQueryIsRejected ==
    \A r \in Requests :
        (Called(r) /\ Incomplete(req[r].input[1])) =>
            /\ req[r].pc = "failed"
            /\ req[r].error = <<ValidationError>>
            /\ req[r].calls = <<>>
            /\ req[r].seen = <<>>
            /\ req[r].result = <<>>
            /\ req[r].stored = <<>>

\* a lone latitude is rejected while the cache holds an entry
C5_Witness ==
    \E r \in Requests :
        /\ Called(r)
        /\ req[r].input[1].lat # <<>>
        /\ Incomplete(req[r].input[1])
        /\ req[r].pc = "failed"
        /\ DOMAIN weatherCache # {}

HasLocation(q) == q.location # <<>> /\ Len(q.location[1]) > 0
HasBothCoords(q) == q.lat # <<>> /\ q.lon # <<>>

\* C6, as claimed: a location together with lat and/or lon is rejected with
\* the validation error before any provider call
C6_LocationWithCoordsIsRejected ==
    \A r \in Requests :
        (/\ Called(r)
         /\ HasLocation(req[r].input[1])
         /\ (req[r].input[1].lat # <<>> \/ req[r].input[1].lon # <<>>))
        => /\ req[r].pc = "failed"
           /\ req[r].error = <<ValidationError>>
           /\ req[r].calls = <<>>

\* C6, amended: the validation error is raised exactly for the queries with
\* neither a non-empty location nor both coordinates; a location together
\* with lat and/or lon is accepted and keyed and fetched by the location
C6_AtLeastOneFormIsAccepted ==
    \A r \in Requests :
        Called(r) =>
            LET q == req[r].input[1] IN
            /\ (req[r].error = <<ValidationError>>)
                   <=> ~(HasLocation(q) \/ HasBothCoords(q))
            /\ (HasLocation(q) /\ (q.lat # <<>> \/ q.lon # <<>>)) =>
                   /\ req[r].cacheKey =
                          getCacheKey([q EXCEPT !.lat = <<>>, !.lon = <<>>])
                   /\ (req[r].calls # <<>> =>
                          /\ req[r].calls[1].endpoint = "weather"
                          /\ req[r].calls[1].q = q.location)
                   /\ (req[r].calls = <<>> => FoundFresh(r))

\* a location with a lone latitude has reached the provider
C6_Witness ==
    \E r \in Requests :
        /\ Called(r)
        /\ HasLocation(req[r].input[1])
        /\ req[r].input[1].lat # <<>>
        /\ req[r].input[1].lon = <<>>
        /\ Len(req[r].calls) = 2

\* the part of s between its leading and its trailing whitespace
Core(s) ==
    LET i == CHOOSE i \in 1..(Len(s) + 1) :
                 /\ \A k \in 1..(i - 1) : s[k] \in WhiteSpace
                 /\ (i <= Len(s) => s[i] \notin WhiteSpace)
        j == CHOOSE j \in 0..Len(s) :
                 /\ \A k \in (j + 1)..Len(s) : s[k] \in WhiteSpace
                 /\ (j >= 1 => s[j] \notin WhiteSpace)
    IN  SubSeq(s, i, j)

SameLetter(a, b) ==
    \/ a = b
    \/ (a \in DOMAIN UpperToLower /\ UpperToLower[a] = b)
    \/ (b \in DOMAIN UpperToLower /\ UpperToLower[b] = a)

\* s and t differ at most in letter case and leading/trailing whitespace
SameModuloCaseAndSpace(s, t) ==
    /\ Len(Core(s)) = Len(Core(t))
    /\ \A i \in 1..Len(Core(s)) : SameLetter(Core(s)[i], Core(t)[i])

LocationOnly(q) == HasLocation(q) /\ q.lat = <<>> /\ q.lon = <<>>

ServedFromCache(r) ==
    req[r].pc = "done" /\ req[r].calls = <<>> /\ req[r].result # <<>>

\* request b looked up after request a had stored, less than a TTL later
WithinTtlOfStore(a, b) ==
    /\ a \in req[b].priorStores
    /\ req[b].callTime[1] < req[a].stored[1].time + 5 * 60 * 1000

\* C7: the key of a location-only query is the location without its outer
\* whitespace and without upper case; two such queries that differ only in
\* case and outer whitespace have the same key, and the second one, issued
\* within TTL of the first one's store, is served from the cache
C7_LocationKeyIgnoresCaseAndSpace ==
    \A a, b \in Requests :
        (/\ Called(a) /\ Called(b)
         /\ LocationOnly(req[a].input[1]) /\ LocationOnly(req[b].input[1])
         /\ SameModuloCaseAndSpace(req[a].input[1].location[1],
                                   req[b].input[1].location[1]))
        => /\ req[a].cacheKey # <<>>
           /\ SameModuloCaseAndSpace(req[a].cacheKey[1],
                                     req[a].input[1].location[1])
           /\ req[a].cacheKey[1] = Core(req[a].cacheKey[1])
           /\ \A i \in 1..Len(req[a].cacheKey[1]) :
                  req[a].cacheKey[1][i] \notin DOMAIN UpperToLower
           /\ req[a].cacheKey = req[b].cacheKey
           /\ (WithinTtlOfStore(a, b) =>
                  ServedFromCache(b) /\ req[b].result = req[a].result)

\* "Lo" was stored and " lo " was served from the cache, or the reverse
C7_Witness ==
    \E a, b \in Requests :
        /\ Called(a) /\ Called(b)
        /\ LocationOnly(req[a].input[1]) /\ LocationOnly(req[b].input[1])
        /\ req[a].input[1].location # req[b].input[1].location
        /\ WithinTtlOfStore(a, b)
        /\ ServedFromCache(b)

\* x thousandths rounded to hundredths, as a number
Round2(x) == IF x < 0 THEN -((5 - x) \div 10) ELSE (x + 5) \div 10

CoordsOnly(q) == q.location = <<>> /\ HasBothCoords(q)

\* C8, as claimed: two coordinate queries whose lat and whose lon round to
\* the same 2-decimal numbers have the same key, and the second one, issued
\* within TTL of the first one's store, is served from the cache
C8_SameRoundedCoordsShareKey ==
    \A a, b \in Requests :
        (/\ Called(a) /\ Called(b)
         /\ CoordsOnly(req[a].input[1]) /\ CoordsOnly(req[b].input[1])
         /\ Round2(req[a].input[1].lat[1]) = Round2(req[b].input[1].lat[1])
         /\ Round2(req[a].input[1].lon[1]) = Round2(req[b].input[1].lon[1]))
        => /\ req[a].cacheKey = req[b].cacheKey
           /\ (WithinTtlOfStore(a, b) => ServedFromCache(b))

\* C9: a request calls the provider at most twice, first current-weather
\* and then, only after a 2xx answer to that, forecast; a non-2xx answer to
\* either ends the request with an error carrying the status and the body,
\* without a snapshot and without a further call
C9_TwoCallsNoRetryNoPartial ==
    \A r \in Requests :
        LET c == req[r].calls
            w == req[r].weatherResp
            f == req[r].forecastResp
        IN  /\ Len(c) <= 2
            /\ (Len(c) >= 1 => c[1].endpoint = "weather")
            /\ (Len(c) = 2 =>
                   /\ c[2].endpoint = "forecast"
                   /\ w # <<>> /\ Is2xx(w[1].status))
            /\ (f # <<>> => Len(c) = 2)
            /\ ((w # <<>> /\ ~Is2xx(w[1].status)) =>
                   /\ req[r].pc = "failed"
                   /\ Len(c) = 1
                   /\ req[r].result = <<>>
                   /\ req[r].error # <<>>
                   /\ req[r].error[1].status = w[1].status
                   /\ req[r].error[1].body = w[1].text)
            /\ ((f # <<>> /\ ~Is2xx(f[1].status)) =>
                   /\ req[r].pc = "failed"
                   /\ req[r].result = <<>>
                   /\ req[r].error # <<>>
                   /\ req[r].error[1].status = f[1].status
                   /\ req[r].error[1].body = f[1].text)

\* one request was aborted by the current-weather call, another one by the
\* forecast call
C9_Witness ==
    \E a, b \in Requests :
        /\ req[a].weatherResp # <<>> /\ ~Is2xx(req[a].weatherResp[1].status)
        /\ req[a].pc = "failed"
        /\ req[b].forecastResp # <<>> /\ ~Is2xx(req[b].forecastResp[1].status)
        /\ req[b].pc = "failed"

\* the pipeline of request r has run to its end
PipelineSucceeded(r) == req[r].filterTime # <<>> /\ req[r].result # <<>>

\* C10, as claimed: the hourly list of a successful pipeline run has at
\* most 8 entries, none later than 24 hours after the time getWeatherData
\* was called
C10_HourlyWithinDayOfCall ==
    \A r \in Requests :
        PipelineSucceeded(r) =>
            LET hourly == req[r].result[1].hourly IN
            /\ Len(hourly) <= 8
            /\ \A i \in 1..Len(hourly) :
                   hourly[i].dt * 1000
                       <= req[r].callTime[1] + 24 * 60 * 60 * 1000

\* C10, amended: the hourly list of a successful pipeline run has at most
\* 8 entries, none later than 24 hours after the time the flow read the
\* clock, which is after both provider calls returned and so not earlier
\* than the call of getWeatherData
C10_HourlyWithinDayOfFilter ==
    \A r \in Requests :
        PipelineSucceeded(r) =>
            LET hourly == req[r].result[1].hourly IN
            /\ Len(hourly) <= 8
            /\ req[r].filterTime[1] >= req[r].callTime[1]
            /\ \A i \in 1..Len(hourly) :
                   hourly[i].dt * 1000
                       <= req[r].filterTime[1] + 24 * 60 * 60 * 1000

\* a run that took time and kept a sample later than 24 hours after the
\* call, next to a run whose list was cut to 8
C10_Witness ==
    \E a, b \in Requests :
        /\ PipelineSucceeded(a) /\ PipelineSucceeded(b)
        /\ Len(req[a].result[1].hourly) = 8
        /\ req[b].filterTime[1] > req[b].callTime[1]
        /\ \E i \in 1..Len(req[b].result[1].hourly) :
               req[b].result[1].hourly[i].dt * 1000
                   > req[b].callTime[1] + 24 * 60 * 60 * 1000

\* requests a and b have the same usable key, both missed the cache, and
\* neither had stored when the other looked up
ConcurrentMiss(a, b) ==
    /\ a # b
    /\ Called(a) /\ Called(b)
    /\ req[a].cacheKey # <<>> /\ Len(req[a].cacheKey[1]) > 0
    /\ req[a].cacheKey = req[b].cacheKey
    /\ ~FoundFresh(a) /\ ~FoundFresh(b)
    /\ a \notin req[b].priorStores
    /\ b \notin req[a].priorStores

\* C11: two requests with the same key that both start before either has
\* stored each make their own provider calls and each store their own
\* result; the entry left is the one of the request that stored last
C11_NoInFlightDeduplication ==
    \A a, b \in Requests :
        ConcurrentMiss(a, b) =>
            /\ Len(req[a].calls) >= 1
            /\ req[a].calls[1].endpoint = "weather"
            /\ (req[a].pc = "done" =>
                   /\ Len(req[a].calls) = 2
                   /\ req[a].stored # <<>>
                   /\ req[a].stored[1].entry.data = req[a].result[1])
            /\ (/\ req[a].pc = "done" /\ req[b].pc = "done"
                /\ req[a].stored # <<>> /\ req[b].stored # <<>>
                /\ req[a].stored[1].order > req[b].stored[1].order)
               => /\ req[a].cacheKey[1] \in DOMAIN weatherCache
                  /\ weatherCache[req[a].cacheKey[1]] = req[a].stored[1].entry

\* both finished with different snapshots
C11_Witness ==
    \E a, b \in Requests :
        /\ ConcurrentMiss(a, b)
        /\ req[a].pc = "done" /\ req[b].pc = "done"
        /\ req[a].stored[1].order > req[b].stored[1].order
        /\ req[a].result # req[b].result
        /\ req[a].stored[1].time = req[b].stored[1].time

\* C12, as claimed: the forecast call uses the query's (lat, lon) when the
\* query supplied coordinates and the provider's (lat, lon) otherwise,
\* never one component of each
C12_ForecastUsesCoherentPair ==
    \A r \in Requests :
        Len(req[r].calls) = 2 =>
            LET f == req[r].calls[2]
                q == req[r].input[1]
                coord == req[r].weatherData[1].coord
            IN  /\ f.endpoint = "forecast"
                /\ IF q.lat # <<>> /\ q.lon # <<>>
                   THEN f.lat = q.lat /\ f.lon = q.lon
                   ELSE f.lat = <<coord.lat>> /\ f.lon = <<coord.lon>>

\* request r makes its lookup in this step
LookupStep(r) == req[r].pc = "idle" /\ req'[r].pc # "idle"

\* C13: a lookup changes the cache at most by deleting the expired entry of
\* the key looked up; a hit changes nothing, the entries of other keys are
\* kept as they are, and no entry ever leaves the cache in another way
C13_LookupFrame ==
    /\ \A r \in Requests :
           LookupStep(r) =>
               LET key == req'[r].cacheKey IN
               \/ weatherCache' = weatherCache
               \/ /\ key # <<>>
                  /\ key[1] \in DOMAIN weatherCache
                  /\ weatherCache[key[1]].expiry <= now
                  /\ DOMAIN weatherCache' = DOMAIN weatherCache \ {key[1]}
                  /\ \A k \in DOMAIN weatherCache' :
                         weatherCache'[k] = weatherCache[k]
    /\ \A r \in Requests :
           (/\ LookupStep(r)
            /\ req'[r].cacheKey # <<>>
            /\ req'[r].cacheKey[1] \in DOMAIN weatherCache
            /\ weatherCache[req'[r].cacheKey[1]].expiry > now)
           => weatherCache' = weatherCache
    /\ \A k \in DOMAIN weatherCache :
           k \notin DOMAIN weatherCache' =>
               /\ weatherCache[k].expiry <= now
               /\ \E r \in Requests :
                      LookupStep(r) /\ req'[r].cacheKey = <<k>>

C13_LookupOnlyDeletesOwnExpiredEntry == [][C13_LookupFrame]_vars

\* an expired entry is still in the cache after a lookup of another key
C13_Witness ==
    \E k \in DOMAIN weatherCache, r \in Requests :
        /\ Called(r)
        /\ req[r].cacheKey # <<>> /\ Len(req[r].cacheKey[1]) > 0
        /\ req[r].cacheKey[1] # k
        /\ weatherCache[k].expiry <= req[r].callTime[1]

\* C19: no entry expires later than 5 minutes from now, a store over an
\* existing key does not lower its expiry, and a snapshot served from the
\* cache was stored less than 5 minutes before the call that receives it
C19_ExpiryBound ==
    /\ \A k \in DOMAIN weatherCache :
           weatherCache[k].expiry <= now + 5 * 60 * 1000
    /\ \A r \in Requests :
           (req[r].pc = "done" /\ req[r].calls = <<>>) =>
               \E o \in req[r].priorStores :
                   /\ req[o].stored[1].entry.data = req[r].result[1]
                   /\ req[o].stored[1].key = req[r].cacheKey[1]
                   /\ req[o].stored[1].time <= req[r].callTime[1]
                   /\ req[r].callTime[1] - req[o].stored[1].time
                          < 5 * 60 * 1000

C19_OverwriteStep ==
    \A k \in DOMAIN weatherCache :
        k \in DOMAIN weatherCache' =>
            weatherCache'[k].expiry >= weatherCache[k].expiry

C19_EntriesAreYoungerThanTtl == []C19_ExpiryBound /\ [][C19_OverwriteStep]_vars

\* a snapshot served some time after it was stored
C19_Witness ==
    \E r \in Requests :
        /\ req[r].pc = "done" /\ req[r].calls = <<>>
        /\ req[r].callTime[1] > req[r].seen[1].expiry - 5 * 60 * 1000

\* C20, as claimed: every query that passes validation, a whitespace-only
\* location included, is stored after its successful fetch, and the same
\* query repeated within TTL of that store is served from the cache
C20_AcceptedQueriesAreCached ==
    /\ \A r \in Requests :
           (/\ Called(r)
            /\ HasLocation(req[r].input[1]) \/ HasBothCoords(req[r].input[1])
            /\ req[r].pc = "done"
            /\ req[r].calls # <<>>)
           => /\ req[r].stored # <<>>
              /\ req[r].stored[1].entry.data = req[r].result[1]
    /\ \A a, b \in Requests :
           (/\ a # b /\ Called(a) /\ Called(b)
            /\ req[a].input = req[b].input
            /\ WithinTtlOfStore(a, b))
           => ServedFromCache(b)

\* the forecast list request r received and the daily forecast it returned
ListOf(r) == req[r].forecastResp[1].json[1].list
DailyOf(r) == req[r].result[1].forecast

\* the day label of sample k of request r
LabelOf(r, k) == formatEEE(ListOf(r)[k].dt, serverTz)[1]

\* the samples of request r with day label day
SamplesOf(r, day) == {k \in 1..Len(ListOf(r)) : LabelOf(r, k) = day}

\* the first sample of request r with day label day
FirstOf(r, day) ==
    CHOOSE k \in SamplesOf(r, day) : \A j \in SamplesOf(r, day) : k <= j

\* C14: the daily forecast has at most 7 entries, one for each day label
\* of the list, in the order in which the labels first appear, each with
\* the mapped condition of the first sample of its day
C14_DailyFirstSeenOrderAndCondition ==
    \A r \in Requests :
        PipelineSucceeded(r) =>
            LET F == DailyOf(r) IN
            /\ Len(F) <= 7
            /\ {F[i].day : i \in 1..Len(F)}
                   = {LabelOf(r, k) : k \in 1..Len(ListOf(r))}
            /\ \A i, j \in 1..Len(F) :
                   i < j => /\ F[i].day # F[j].day
                            /\ FirstOf(r, F[i].day) < FirstOf(r, F[j].day)
            /\ \A i \in 1..Len(F) :
                   F[i].condition \in
                       {"Sunny", "Cloudy", "Rainy", "Snowy", "Thunderstorm",
                        "Fog", "Haze"}
                   /\ F[i].condition = mapWeatherCondition(
                          ListOf(r)[FirstOf(r, F[i].day)].main)

\* a day, another day, and the first day again with another condition
C14_Witness ==
    \E r \in Requests :
        /\ PipelineSucceeded(r)
        /\ Len(ListOf(r)) = 3
        /\ Len(DailyOf(r)) = 2
        /\ LabelOf(r, 1) = LabelOf(r, 3)
        /\ LabelOf(r, 1) # LabelOf(r, 2)
        /\ ListOf(r)[1].main = "Rain"
        /\ ListOf(r)[3].main = "Snow"
        /\ DailyOf(r)[1].condition = "Rainy"

SetMax(S) == CHOOSE m \in S : \A x \in S : x <= m
SetMin(S) == CHOOSE m \in S : \A x \in S : m <= x

\* x tenths rounded to the nearest integer, halves upwards
Nearest(x) == CHOOSE n \in -100..100 : 10 * n - 5 <= x /\ x < 10 * n + 5

\* C15: tempHigh of a day is the rounded maximum of temp_max and tempLow
\* the rounded minimum of temp_min over all the samples of the day, and
\* neither is infinite
C15_DailyHighAndLow ==
    \A r \in Requests :
        PipelineSucceeded(r) =>
            \A i \in 1..Len(DailyOf(r)) :
                LET day == DailyOf(r)[i]
                    S == SamplesOf(r, day.day)
                IN  /\ day.tempHigh.inf = 0
                    /\ day.tempLow.inf = 0
                    /\ day.tempHigh.v =
                           Nearest(SetMax({ListOf(r)[k].temp_max : k \in S}))
                    /\ day.tempLow.v =
                           Nearest(SetMin({ListOf(r)[k].temp_min : k \in S}))

\* one day with maxima 10.4, 14.6, 5.2 and minima 2.1, -1.2, 3.8
C15_Witness ==
    \E r \in Requests :
        /\ PipelineSucceeded(r)
        /\ Len(DailyOf(r)) = 1
        /\ [k \in 1..Len(ListOf(r)) |-> ListOf(r)[k].temp_max]
               = <<104, 146, 52>>
        /\ DailyOf(r)[1].tempHigh.v = 15
        /\ DailyOf(r)[1].tempLow.v = 0 - 1

\* C16, as claimed: the humidity of a day lies between the smallest and the
\* largest humidity of its samples, so the humidity of a day with a single
\* sample is the humidity of that sample
C16_DailyHumidityWithinSamples ==
    \A r \in Requests :
        PipelineSucceeded(r) =>
            \A i \in 1..Len(DailyOf(r)) :
                LET day == DailyOf(r)[i]
                    H == {ListOf(r)[k].humidity : k \in SamplesOf(r, day.day)}
                IN  /\ SetMin(H) <= day.humidity
                    /\ day.humidity <= SetMax(H)

\* the calendar day of sample k of request r in the time zone of the city
CityDayOf(r, k) ==
    (ListOf(r)[k].dt + req[r].forecastResp[1].json[1].city.timezone)
        \div 86400

\* C17, as claimed: two samples are in the same daily group exactly when
\* they are on the same calendar day in the time zone of the city: there
\* is one entry for each such day, labelled with its weekday, and its high
\* is the one of the samples of that day
C17_DailyGroupsByCityDay ==
    \A r \in Requests :
        PipelineSucceeded(r) =>
            LET F == DailyOf(r)
                K == 1..Len(ListOf(r))
            IN  /\ Len(F) = Cardinality({CityDayOf(r, k) : k \in K})
                /\ \A k \in K :
                       \E i \in 1..Len(F) :
                           /\ F[i].day = WeekDays[(CityDayOf(r, k) % 7) + 1]
                           /\ F[i].tempHigh.v =
                                  Nearest(SetMax(
                                      {ListOf(r)[j].temp_max :
                                          j \in {j \in K : CityDayOf(r, j)
                                                    = CityDayOf(r, k)}}))

\* C18, as claimed: when both provider calls succeeded the request does not
\* fail, whatever timestamp cannot be rendered: the field is "N/A", the
\* snapshot is returned and stored
C18_FormattingNeverAborts ==
    \A r \in Requests :
        (/\ req[r].weatherResp # <<>> /\ Is2xx(req[r].weatherResp[1].status)
         /\ req[r].forecastResp # <<>> /\ Is2xx(req[r].forecastResp[1].status))
        => /\ req[r].pc # "failed"
           /\ req[r].error = <<>>
           /\ req[r].result # <<>>
           /\ (req[r].weatherData[1].sunrise = NaN =>
                  req[r].result[1].sunrise = <<"N", "/", "A">>)
           /\ (req[r].pc = "done" => req[r].stored # <<>>)

====
